---------------------------- MODULE Spec2Model ----------------------------
(***************************************************************************)
(* Model of the BSEC2 sketch of src/src/main.cpp (lines 289-659): the      *)
(* derived air-quality pipeline driven by loop().                          *)
(*                                                                         *)
(* Time is millis() in milliseconds since boot.  Gas resistance is kept in *)
(* kilo-ohms; the raw readings are multiples of 1000 ohms so that the      *)
(* division by 1000 and the percentage of computeSimpleVocIndex are exact. *)
(* A float NaN is the value NAN, and every comparison with a float goes    *)
(* through FLt / FLe, which are false on NaN as in IEEE-754.  The simple   *)
(* VOC index is kept as its integer part, which decides every comparison   *)
(* of the code against its integer thresholds.  Pressure is kept in        *)
(* hundredths (of the raw unit before, of hPa after the normalisation).    *)
(* The inputs are values on which the float arithmetic of the code is      *)
(* exact or rounds to the same side of every threshold.                    *)
(*                                                                         *)
(* One iteration of loop() is four steps, in the order of the code: the    *)
(* BtnA handler, the BtnB handler, the BtnC handler, and the sampling part *)
(* (millis(), envSensor.run() and the sampling cycle).                     *)
(***************************************************************************)
EXTENDS Integers, FiniteSets, Sequences, TLC

\* ------------------------------------------------------------------ bounds
\* Spec follows the first minutes after boot: between two iterations of
\* loop() millis() advances by one of Deltas, up to MaxTicks window
\* intervals after boot.
MaxTicks == 7

\* SpecSave follows the save schedule in steps of half a save interval, up
\* to MaxSaveTicks of them.  Both horizons are far below the 2^32 wrap of
\* millis().
MaxSaveTicks == 4

\* SpecUpdate cuts the clock into halves of the update interval and follows
\* it for MaxUpdateTicks of them
MaxUpdateTicks == 5

\* Raw gas resistances (ohms) delivered by BSEC_OUTPUT_RAW_GAS.
RawGas == {0, 75000, 100000}

\* iaqAccuracy values delivered with BSEC_OUTPUT_IAQ.
Accuracies == {1, 2, 3}

\* Raw pressure delivered by BSEC_OUTPUT_RAW_PRESSURE in Spec and SpecSave,
\* in hundredths: 101325.00
RawPressure == {10132500}

\* SpecValues applies one sampling cycle to a pipeline state and a reading
\* drawn from these sets: gas resistances in kilo-ohms, raw pressures in
\* hundredths (1013.25, 4999.00, 5000.00, 5025.00, 95000.00, 101325.00).
ValueKOhm == {0, 50, 75, 90, 91, 98, 99, 100, 120}
ValuePressure == {101325, 499900, 500000, 502500, 9500000, 10132500}

\* ------------------------------------------------------- program constants
UPDATE_INTERVAL_MS == 5000
STATE_SAVE_INTERVAL_MS == 600000
BASELINE_DELAY_MS == 120000
WINDOW_UPDATE_INTERVAL_MS == 30000
\* the literal 5UL * 60UL * 1000UL of the save condition in loop()
SaveLiteralMs == 300000
\* iaqAccuracy below which updateDynamicUI shows the simple VOC index
MinUsableAccuracy == 2
\* iaqAccuracy required by the periodic state save
MaxAccuracy == 3
\* raw pressures above 5000.0f are taken as Pa and divided by 100.0f
PressurePaAbove == 5000
PaPerHPa == 100

\* float NaN; gas resistances and indices are never negative
NAN == -1

\* the steps of the clock and the horizons of the two specifications
Deltas == {0, WINDOW_UPDATE_INTERVAL_MS, BASELINE_DELAY_MS}
MaxNow == MaxTicks * WINDOW_UPDATE_INTERVAL_MS
SaveDeltas == {0, SaveLiteralMs \div 2, SaveLiteralMs}
MaxNowSave == MaxSaveTicks * (SaveLiteralMs \div 2)
UpdateDeltas == {0, UPDATE_INTERVAL_MS \div 2, UPDATE_INTERVAL_MS}
MaxNowUpdate == MaxUpdateTicks * (UPDATE_INTERVAL_MS \div 2)

IsNan(x) == x = NAN
FLt(a, b) == ~IsNan(a) /\ ~IsNan(b) /\ a < b
FLe(a, b) == ~IsNan(a) /\ ~IsNan(b) /\ a <= b

VARIABLES
  pc,                  \* position in loop(): "btnA", "btnB", "btnC", "run"
  now,                 \* value of millis() at the latest reading of the clock
  lastUpdate,
  lastStateSave,
  lastWindowUpdate,
  baselineEstablished,
  gasBaseline,
  gasMinWindow,
  warnedOnce,          \* static bool of the no-data branch of loop()
  prefsHasState,       \* the Preferences store holds a state blob
  vals,                \* SensorValues of the latest sampling cycle
  display,             \* info line drawn by updateDynamicUI
  data,                \* dGas.signal and dPress.signal of the latest cycle
  epochMin,            \* least reading since and including the latest cycle
                       \* that reset the window, NAN before the first reset
  last,                \* what the latest step did
  saved,               \* saveState() in the latest step: "no", "ok", "getfail", "putfail"
  saveCalledAt,        \* {time of the latest saveState() call}, {} if none
  got,                 \* `bool got = envSensor.run()` of the latest iteration
  cycleAt,             \* {time of the latest sampling cycle}, {} if none
  refreshed            \* lastUpdate was zeroed since the latest cycle

vars == <<pc, now, lastUpdate, lastStateSave, lastWindowUpdate,
          baselineEstablished, gasBaseline, gasMinWindow, warnedOnce,
          prefsHasState, vals, display, data, epochMin, last, saved,
          saveCalledAt, got, cycleAt, refreshed>>

\* the BaselineState of the pipeline together with the save timestamp
pipeline == <<baselineEstablished, gasBaseline, gasMinWindow,
              lastWindowUpdate, lastStateSave>>

\* ------------------------------------------------------------ pure helpers
\* classifySimpleVoc with inclusive upper thresholds
classifySimpleVoc_inclusive(index) ==
  IF IsNan(index) THEN "Building"
  ELSE IF index <= 2 THEN "Excellent"
  ELSE IF index <= 10 THEN "Normal"
  ELSE IF index <= 25 THEN "Elevated"
  ELSE IF index <= 50 THEN "Poor"
  ELSE "Severe"

\* classifySimpleVoc
classifySimpleVoc(index) ==
  IF IsNan(index) THEN "Building"
  ELSE IF index < 2 THEN "Excellent"
  ELSE IF index < 10 THEN "Normal"
  ELSE IF index < 25 THEN "Elevated"
  ELSE IF index < 50 THEN "Poor"
  ELSE "Severe"

\* vals.gas_kOhm = dGas.signal / 1000.0f
GasKOhm(raw) == raw \div 1000

\* NormalizePressure with `>=` for `>`
NormalizePressure_atThreshold(rawPress) ==
  IF rawPress >= PressurePaAbove * 100
    THEN rawPress \div PaPerHPa
    ELSE rawPress

\* the pressure unit heuristic of loop(), on hundredths
NormalizePressure(rawPress) ==
  IF rawPress > PressurePaAbove * 100
    THEN rawPress \div PaPerHPa
    ELSE rawPress

\* SensorValues{} : every float member starts as NaN, iaqAccuracy as 0
SensorValues0 ==
  [pressure_hPa |-> NAN, gas_kOhm |-> NAN, iaqAccuracy |-> 0,
   simpleVocIndex |-> NAN, gasBaseline_kOhm |-> NAN,
   gasMinWindow_kOhm |-> NAN]

\* no getData so far
NoData0 == [gas |-> NAN, pressure |-> NAN]

\* the info line before the first updateDynamicUI
NoDisplay == [source |-> "none", accuracy |-> 0, index |-> NAN, label |-> "none"]

\* ------------------------------------------------------------------- Init
\* The state when setup() has returned: the globals hold their initialisers
\* (initBsec2 writes lastUpdate = 0 or nothing), millis() is still about 0,
\* and the store may hold a blob of an earlier run.
Init ==
  /\ pc = "btnA"
  /\ now = 0
  /\ lastUpdate = 0
  /\ lastStateSave = 0
  /\ lastWindowUpdate = 0
  /\ baselineEstablished = FALSE
  /\ gasBaseline = NAN
  /\ gasMinWindow = NAN
  /\ warnedOnce = FALSE
  /\ prefsHasState \in BOOLEAN
  /\ vals = SensorValues0
  /\ display = NoDisplay
  /\ data = NoData0
  /\ epochMin = NAN
  /\ last = "setup"
  /\ saved = "no"
  /\ saveCalledAt = {}
  /\ got = FALSE
  /\ cycleAt = {}
  /\ refreshed = FALSE

\* --------------------------------------------------------- button handlers
\* BtnA as it would be if the refresh also restarted the window
BtnA_resetsWindow ==
  /\ lastUpdate' = 0
  /\ lastWindowUpdate' = 0
  /\ UNCHANGED <<baselineEstablished, gasBaseline, gasMinWindow, lastStateSave,
                 warnedOnce, prefsHasState>>

\* body of `if (M5.BtnA.wasPressed())`
BtnA ==
  /\ lastUpdate' = 0
  /\ UNCHANGED <<pipeline, warnedOnce, prefsHasState>>

\* initBsec2 as it would be if a successful reinitialize reset the baseline
initBsec2_resetsBaseline(beginOk, subOk) ==
  IF beginOk /\ subOk
    THEN /\ lastUpdate' = 0
         /\ baselineEstablished' = FALSE
         /\ gasBaseline' = NAN
         /\ gasMinWindow' = NAN
         /\ UNCHANGED <<lastWindowUpdate, lastStateSave, warnedOnce, prefsHasState>>
    ELSE UNCHANGED <<lastUpdate, pipeline, warnedOnce, prefsHasState>>

\* initBsec2(): beginOk is the outcome of the two envSensor.begin attempts,
\* subOk the outcome of updateSubscription.  loadState() only reads the
\* store and hands the blob to the estimator.
initBsec2(beginOk, subOk) ==
  /\ lastUpdate' = IF beginOk /\ subOk THEN 0 ELSE lastUpdate
  /\ UNCHANGED <<pipeline, warnedOnce, prefsHasState>>

BtnAHandler ==
  /\ pc = "btnA"
  /\ pc' = "btnB"
  /\ \E pressed \in BOOLEAN :
       IF pressed
         THEN BtnA /\ last' = "BtnA" /\ refreshed' = TRUE
         ELSE UNCHANGED <<lastUpdate, pipeline, warnedOnce, prefsHasState,
                          refreshed>>
              /\ last' = "noBtnA"
  /\ saved' = "no"
  /\ got' = FALSE
  /\ UNCHANGED <<now, vals, display, data, epochMin, saveCalledAt, cycleAt>>

\* i2cScan() only talks to the bus and the serial port
BtnBHandler ==
  /\ pc = "btnB"
  /\ pc' = "btnC"
  /\ \E pressed \in BOOLEAN : last' = IF pressed THEN "BtnB" ELSE "noBtnB"
  /\ saved' = "no"
  /\ UNCHANGED <<now, lastUpdate, pipeline, warnedOnce, prefsHasState,
                 vals, display, data, epochMin, saveCalledAt, got, cycleAt,
                 refreshed>>

BtnCHandler ==
  /\ pc = "btnC"
  /\ pc' = "run"
  /\ \E pressed \in BOOLEAN :
       IF pressed
         THEN \E beginOk, subOk \in BOOLEAN :
                /\ initBsec2(beginOk, subOk)
                /\ last' = IF beginOk /\ subOk THEN "BtnC" ELSE "BtnCfailed"
                /\ refreshed' = (refreshed \/ (beginOk /\ subOk))
         ELSE UNCHANGED <<lastUpdate, pipeline, warnedOnce, prefsHasState,
                          refreshed>>
              /\ last' = "noBtnC"
  /\ saved' = "no"
  /\ UNCHANGED <<now, vals, display, data, epochMin, saveCalledAt, got,
                 cycleAt>>

\* ----------------------------------------------------------- sampling cycle
\* computeSimpleVocIndex without `if (index < 0) index = 0`
computeSimpleVocIndex_noClamp(gasCurrent, est, base, minw) ==
  IF ~est \/ IsNan(base) \/ FLe(base, 0)
    THEN [ret |-> NAN, gasMinWindow |-> minw]
    ELSE LET w1 == IF IsNan(minw) THEN gasCurrent ELSE minw
             w2 == IF FLt(gasCurrent, w1) THEN gasCurrent ELSE w1
             delta == base - gasCurrent
             index == (delta * 100) \div base
         IN  [ret |-> index, gasMinWindow |-> w2]

\* computeSimpleVocIndex with the magnitude of a negative index
computeSimpleVocIndex_magnitude(gasCurrent, est, base, minw) ==
  IF ~est \/ IsNan(base) \/ FLe(base, 0)
    THEN [ret |-> NAN, gasMinWindow |-> minw]
    ELSE LET w1 == IF IsNan(minw) THEN gasCurrent ELSE minw
             w2 == IF FLt(gasCurrent, w1) THEN gasCurrent ELSE w1
             delta == base - gasCurrent
             index == (delta * 100) \div base
         IN  [ret |-> IF index < 0 THEN 0 - index ELSE index,
              gasMinWindow |-> w2]

\* computeSimpleVocIndex returning 0 where it returns NAN
computeSimpleVocIndex_zeroUnavailable(gasCurrent, est, base, minw) ==
  IF ~est \/ IsNan(base) \/ FLe(base, 0)
    THEN [ret |-> 0, gasMinWindow |-> minw]
    ELSE LET w1 == IF IsNan(minw) THEN gasCurrent ELSE minw
             w2 == IF FLt(gasCurrent, w1) THEN gasCurrent ELSE w1
             delta == base - gasCurrent
             index == (delta * 100) \div base
         IN  [ret |-> IF index < 0 THEN 0 ELSE index, gasMinWindow |-> w2]

\* computeSimpleVocIndex following the largest reading of the window
computeSimpleVocIndex_tracksMax(gasCurrent, est, base, minw) ==
  IF ~est \/ IsNan(base) \/ FLe(base, 0)
    THEN [ret |-> NAN, gasMinWindow |-> minw]
    ELSE LET w1 == IF IsNan(minw) THEN gasCurrent ELSE minw
             w2 == IF FLt(w1, gasCurrent) THEN gasCurrent ELSE w1
             delta == base - gasCurrent
             index == (delta * 100) \div base
         IN  [ret |-> IF index < 0 THEN 0 ELSE index, gasMinWindow |-> w2]

\* computeSimpleVocIndex without `if (gasCurrent < gasMinWindow) ...`
computeSimpleVocIndex_noMinUpdate(gasCurrent, est, base, minw) ==
  IF ~est \/ IsNan(base) \/ FLe(base, 0)
    THEN [ret |-> NAN, gasMinWindow |-> minw]
    ELSE LET w1 == IF IsNan(minw) THEN gasCurrent ELSE minw
             delta == base - gasCurrent
             index == (delta * 100) \div base
         IN  [ret |-> IF index < 0 THEN 0 ELSE index, gasMinWindow |-> w1]

\* computeSimpleVocIndex(gasCurrent), on the globals est/base/minw as they
\* are at the call: the returned index and the gasMinWindow it leaves.
computeSimpleVocIndex(gasCurrent, est, base, minw) ==
  IF ~est \/ IsNan(base) \/ FLe(base, 0)
    THEN [ret |-> NAN, gasMinWindow |-> minw]
    ELSE LET w1 == IF IsNan(minw) THEN gasCurrent ELSE minw
             w2 == IF FLt(gasCurrent, w1) THEN gasCurrent ELSE w1
             delta == base - gasCurrent
             index == (delta * 100) \div base
         IN  [ret |-> IF index < 0 THEN 0 ELSE index, gasMinWindow |-> w2]

\* ShouldEstablish with `>=` for `>`
ShouldEstablish_atDelay(t) == ~baselineEstablished /\ t >= BASELINE_DELAY_MS

\* ShouldEstablish without the `!baselineEstablished` test
ShouldEstablish_again(t) == t > BASELINE_DELAY_MS

\* ShouldEstablish without the warm-up delay
ShouldEstablish_noDelay(t) == ~baselineEstablished

\* ShouldEstablish capturing again while the baseline is not positive
ShouldEstablish_retryInvalid(t) ==
  (~baselineEstablished \/ FLe(gasBaseline, 0)) /\ t > BASELINE_DELAY_MS

\* `!baselineEstablished && now > BASELINE_DELAY_MS`
ShouldEstablish(t) == ~baselineEstablished /\ t > BASELINE_DELAY_MS

\* ShouldResetWindow with `>=` for `>`
ShouldResetWindow_atInterval(est, t) ==
  est /\ (t - lastWindowUpdate) >= WINDOW_UPDATE_INTERVAL_MS

\* `baselineEstablished && (now - lastWindowUpdate) > WINDOW_UPDATE_INTERVAL_MS`
ShouldResetWindow(est, t) ==
  est /\ (t - lastWindowUpdate) > WINDOW_UPDATE_INTERVAL_MS

\* TrackBaseline taking the baseline from the values of the cycle before
TrackBaseline_staleBaseline(t, gas) ==
  LET establish == ShouldEstablish(t)
      est1  == baselineEstablished \/ establish
      base1 == IF establish THEN vals.gas_kOhm ELSE gasBaseline
      minw1 == IF establish THEN base1 ELSE gasMinWindow
      reset == ShouldResetWindow(est1, t)
      minw2 == IF reset THEN gas ELSE minw1
      lwu2  == IF reset THEN t ELSE lastWindowUpdate
      r     == computeSimpleVocIndex(gas, est1, base1, minw2)
  IN  [est |-> est1, base |-> base1, minw |-> r.gasMinWindow, lwu |-> lwu2,
       index |-> r.ret]

\* the baseline block of the cycle up to the call of computeSimpleVocIndex:
\* the globals after it and the index of the cycle
TrackBaseline(t, gas) ==
  LET establish == ShouldEstablish(t)
      est1  == baselineEstablished \/ establish
      base1 == IF establish THEN gas ELSE gasBaseline
      minw1 == IF establish THEN base1 ELSE gasMinWindow
      reset == ShouldResetWindow(est1, t)
      minw2 == IF reset THEN gas ELSE minw1
      lwu2  == IF reset THEN t ELSE lastWindowUpdate
      r     == computeSimpleVocIndex(gas, est1, base1, minw2)
  IN  [est |-> est1, base |-> base1, minw |-> r.gasMinWindow, lwu |-> lwu2,
       index |-> r.ret]

\* updateDynamicUI as it would be if the vendor index, once shown, stayed
updateDynamicUI_latched(v) ==
  IF v.iaqAccuracy < MinUsableAccuracy /\ display.source # "Vendor"
    THEN [source |-> "Fallback", accuracy |-> v.iaqAccuracy,
          index |-> v.simpleVocIndex,
          label |-> classifySimpleVoc(v.simpleVocIndex)]
    ELSE [source |-> "Vendor", accuracy |-> v.iaqAccuracy,
          index |-> NAN, label |-> "none"]

\* the info line of updateDynamicUI(vals)
updateDynamicUI(v) ==
  IF v.iaqAccuracy < MinUsableAccuracy
    THEN [source |-> "Fallback", accuracy |-> v.iaqAccuracy,
          index |-> v.simpleVocIndex,
          label |-> classifySimpleVoc(v.simpleVocIndex)]
    ELSE [source |-> "Vendor", accuracy |-> v.iaqAccuracy,
          index |-> NAN, label |-> "none"]

\* saveState(): getOk is the outcome of envSensor.getState, putOk whether
\* prefs.putBytes wrote the blob
saveState(getOk, putOk) ==
  /\ prefsHasState' = (prefsHasState \/ (getOk /\ putOk))
  /\ saved' = IF ~getOk THEN "getfail" ELSE IF ~putOk THEN "putfail" ELSE "ok"

\* ShouldSave without the accuracy test
ShouldSave_anyAccuracy(acc, t) == t - lastStateSave >= SaveLiteralMs

\* ShouldSave as it would be if the first cycle of full accuracy saved
ShouldSave_firstAtOnce(acc, t) ==
  acc = MaxAccuracy /\ (lastStateSave = 0 \/ t - lastStateSave >= SaveLiteralMs)

\* `vals.iaqAccuracy == 3 && (now - lastStateSave >= 5UL * 60UL * 1000UL)`
ShouldSave(acc, t) == acc = MaxAccuracy /\ t - lastStateSave >= SaveLiteralMs

\* PeriodicStateSave as it would be if only a successful save were stamped
PeriodicStateSave_stampOnSuccess(acc, t) ==
  IF ShouldSave(acc, t)
    THEN /\ \E getOk, putOk \in BOOLEAN : saveState(getOk, putOk)
         /\ lastStateSave' = IF saved' = "ok" THEN t ELSE lastStateSave
         /\ saveCalledAt' = {t}
    ELSE /\ saved' = "no"
         /\ UNCHANGED <<prefsHasState, lastStateSave, saveCalledAt>>

\* the "Periodic state save" block of the cycle
PeriodicStateSave(acc, t) ==
  IF ShouldSave(acc, t)
    THEN /\ \E getOk, putOk \in BOOLEAN : saveState(getOk, putOk)
         /\ lastStateSave' = t
         /\ saveCalledAt' = {t}
    ELSE /\ saved' = "no"
         /\ UNCHANGED <<prefsHasState, lastStateSave, saveCalledAt>>

\* the body of `if (got && (now - lastUpdate >= UPDATE_INTERVAL_MS))`
Cycle(t, raw, rawPress, acc) ==
  LET gas == GasKOhm(raw)
      b   == TrackBaseline(t, gas)
      v   == [pressure_hPa |-> NormalizePressure(rawPress),
              gas_kOhm |-> gas, iaqAccuracy |-> acc,
              simpleVocIndex |-> b.index,
              gasBaseline_kOhm |-> b.base, gasMinWindow_kOhm |-> b.minw]
  IN  /\ lastUpdate' = t
      /\ data' = [gas |-> raw, pressure |-> rawPress]
      /\ epochMin' = IF b.lwu # lastWindowUpdate THEN gas
                     ELSE IF FLt(gas, epochMin) THEN gas ELSE epochMin
      /\ baselineEstablished' = b.est
      /\ gasBaseline' = b.base
      /\ gasMinWindow' = b.minw
      /\ lastWindowUpdate' = b.lwu
      /\ vals' = v
      /\ display' = updateDynamicUI(v)
      /\ PeriodicStateSave(acc, t)
      /\ UNCHANGED warnedOnce

\* NoData as it would be if a missing reading blanked the info line
NoData_invalidates ==
  /\ warnedOnce' = TRUE
  /\ saved' = "no"
  /\ display' = NoDisplay
  /\ UNCHANGED <<lastUpdate, pipeline, prefsHasState, vals, data, epochMin,
                 saveCalledAt>>

\* the `else if (!got)` branch: the one-time warning
NoData ==
  /\ warnedOnce' = TRUE
  /\ saved' = "no"
  /\ UNCHANGED <<lastUpdate, pipeline, prefsHasState, vals, display, data,
                 epochMin, saveCalledAt>>

\* CycleDue without the interval test
CycleDue_noInterval(g, t) == g

\* `got && (now - lastUpdate >= UPDATE_INTERVAL_MS)`
CycleDue(g, t) == g /\ (t - lastUpdate >= UPDATE_INTERVAL_MS)

\* the rest of loop() from `unsigned long now = millis()`; millis() has
\* advanced by some d of D and stays within the horizon; a cycle reads a gas
\* resistance of G and a pressure of P
SampleIn(D, horizon, G, P) ==
  /\ pc = "run"
  /\ pc' = "btnA"
  /\ \E d \in D, g \in BOOLEAN :
       /\ now + d <= horizon
       /\ now' = now + d
       /\ got' = g
       /\ IF CycleDue(g, now')
            THEN /\ \E raw \in G, rawPress \in P, acc \in Accuracies :
                      Cycle(now', raw, rawPress, acc)
                 /\ last' = "cycle"
                 /\ cycleAt' = {now'}
                 /\ refreshed' = FALSE
            ELSE /\ IF ~g
                      THEN NoData /\ last' = "nodata"
                      ELSE /\ last' = "notdue"
                           /\ saved' = "no"
                           /\ UNCHANGED <<lastUpdate, pipeline, warnedOnce,
                                          prefsHasState, vals, display, data,
                                          epochMin, saveCalledAt>>
                 /\ UNCHANGED <<cycleAt, refreshed>>

Sample == SampleIn(Deltas, MaxNow, RawGas, RawPressure)

SampleSave == SampleIn(SaveDeltas, MaxNowSave, RawGas, RawPressure)

Next == BtnAHandler \/ BtnBHandler \/ BtnCHandler \/ Sample

Spec == Init /\ [][Next]_vars

NextSave == BtnAHandler \/ BtnBHandler \/ BtnCHandler \/ SampleSave

SpecSave == Init /\ [][NextSave]_vars

\* the first seconds after boot, on a clock of half update intervals
SampleUpdate == SampleIn(UpdateDeltas, MaxNowUpdate, RawGas, RawPressure)

NextUpdate == BtnAHandler \/ BtnBHandler \/ BtnCHandler \/ SampleUpdate

SpecUpdate == Init /\ [][NextUpdate]_vars

\* ------------------------------------------------- one cycle on drawn values
\* the time of the cycles of SpecValues that come after the warm-up
ValueNow == BASELINE_DELAY_MS + 3 * WINDOW_UPDATE_INTERVAL_MS

\* A state at `unsigned long now = millis()` of some iteration of loop(), a
\* sampling cycle being due: before the warm-up delay, after it with no
\* cycle so far, or with a baseline established from any reading and a
\* window that was reset now or long ago.
InitValues ==
  /\ pc = "run"
  /\ \/ /\ now \in {WINDOW_UPDATE_INTERVAL_MS, ValueNow}
        /\ baselineEstablished = FALSE
        /\ gasBaseline = NAN
        /\ gasMinWindow = NAN
        /\ lastWindowUpdate = 0
     \/ /\ now = ValueNow
        /\ baselineEstablished = TRUE
        /\ gasBaseline \in ValueKOhm
        /\ gasMinWindow \in ValueKOhm
        /\ lastWindowUpdate \in {now - 2 * WINDOW_UPDATE_INTERVAL_MS, now}
  /\ epochMin = gasMinWindow
  /\ lastUpdate = 0
  /\ lastStateSave = 0
  /\ warnedOnce = FALSE
  /\ prefsHasState = FALSE
  /\ vals = SensorValues0
  /\ display = NoDisplay
  /\ data = NoData0
  /\ last = "noBtnC"
  /\ saved = "no"
  /\ saveCalledAt = {}
  /\ got = FALSE
  /\ cycleAt = IF baselineEstablished THEN {lastWindowUpdate} ELSE {}
  /\ refreshed = baselineEstablished

SampleValues ==
  SampleIn({0}, ValueNow, {k * 1000 : k \in ValueKOhm}, ValuePressure)

NextValues == SampleValues

SpecValues == InitValues /\ [][NextValues]_vars

TypeOK ==
  /\ pc \in {"btnA", "btnB", "btnC", "run"}
  /\ now >= 0
  /\ lastUpdate \in 0..now
  /\ lastStateSave \in 0..now
  /\ lastWindowUpdate \in 0..now
  /\ baselineEstablished \in BOOLEAN
  /\ warnedOnce \in BOOLEAN
  /\ prefsHasState \in BOOLEAN
  /\ saved \in {"no", "ok", "getfail", "putfail"}
  /\ got \in BOOLEAN
  /\ refreshed \in BOOLEAN
  /\ \A t \in cycleAt : t \in 0..now

\* ------------------------------------------------------------------ claims
\* steps of the model, told by the position they start from
ReinitStep == pc = "btnC" /\ last' \in {"BtnC", "BtnCfailed"}
CycleStep == pc = "run" /\ last' = "cycle"

\* C1 as claimed: after a reinitialize request (BtnC, initBsec2 succeeded)
\* the baseline is Unestablished again and the baseline and the window
\* minimum are cleared.
C1_ReinitResetsBaseline ==
  last = "BtnC" =>
    ~baselineEstablished /\ IsNan(gasBaseline) /\ IsNan(gasMinWindow)

\* C1 as amended: a reinitialize request (BtnC, initBsec2) leaves the whole
\* BaselineState and the save timestamp as they are, and so the last cycle's
\* values and the info line; a successful initBsec2 only zeroes lastUpdate
\* and a failed one changes nothing.
C1_ReinitKeepsBaseline ==
  [][ReinitStep =>
        /\ UNCHANGED <<pipeline, vals, display, now>>
        /\ lastUpdate' = IF last' = "BtnC" THEN 0 ELSE lastUpdate]_vars

C1_Witness == last = "BtnC" /\ baselineEstablished /\ ~IsNan(gasBaseline)

\* C2 as claimed: every sampling cycle at or after BASELINE_DELAY_MS,
\* the one exactly at BASELINE_DELAY_MS included, leaves the baseline
\* Established.
C2_EstablishedAtDelay ==
  (last = "cycle" /\ now >= BASELINE_DELAY_MS) => baselineEstablished

\* C2 as amended: a sampling cycle establishes the baseline exactly when it
\* is not yet established and the cycle's time is strictly after
\* BASELINE_DELAY_MS; nothing but such a cycle establishes it, the baseline
\* recorded is that cycle's gas resistance, and an Established baseline
\* never goes back, so the transition fires once per boot.
C2_EstablishedAfterDelay ==
  [][/\ CycleStep =>
          (baselineEstablished' <=>
             (baselineEstablished \/ now' > BASELINE_DELAY_MS))
     /\ (~baselineEstablished /\ baselineEstablished') =>
          (CycleStep /\ now' > BASELINE_DELAY_MS
             /\ gasBaseline' = vals'.gas_kOhm)
     /\ baselineEstablished => baselineEstablished']_vars

\* the first cycle after the delay has established the baseline with its
\* own reading
C2_Witness ==
  /\ last = "cycle"
  /\ now = BASELINE_DELAY_MS + WINDOW_UPDATE_INTERVAL_MS
  /\ baselineEstablished
  /\ gasBaseline = vals.gas_kOhm
  /\ lastWindowUpdate = now

\* C3: once the baseline is established its value stays the same in every
\* step that is not a reinitialize request: sampling cycles, window resets,
\* manual refreshes, iterations without data and save attempts.
C3_BaselineFrozen ==
  [][(baselineEstablished /\ ~ReinitStep) => gasBaseline' = gasBaseline]_vars

\* a later cycle with another reading, a save attempt included, has left
\* the baseline alone
C3_Witness ==
  /\ last = "cycle"
  /\ baselineEstablished
  /\ saved # "no"
  /\ vals.gas_kOhm # gasBaseline
  /\ ~IsNan(gasBaseline)

\* C4: after a sampling cycle earlier than BASELINE_DELAY_MS the baseline is
\* Unestablished and the cycle's fallback index is NaN, labelled Building.
C4_BuildingBeforeDelay ==
  (last = "cycle" /\ now < BASELINE_DELAY_MS) =>
    /\ ~baselineEstablished
    /\ IsNan(vals.simpleVocIndex)
    /\ classifySimpleVoc(vals.simpleVocIndex) = "Building"
    /\ (display.source = "Fallback" => display.label = "Building")

C4_Witness ==
  /\ last = "cycle"
  /\ now < BASELINE_DELAY_MS
  /\ display.source = "Fallback"
  /\ display.label = "Building"

\* C5: a sampling cycle calls saveState exactly when its iaqAccuracy is 3 and
\* at least the save interval of the condition has passed since lastStateSave;
\* no other step calls saveState.
C5_SaveIffDue ==
  [][/\ CycleStep =>
          ((saved' # "no") <=>
             (vals'.iaqAccuracy = 3 /\ now' - lastStateSave >= SaveLiteralMs))
     /\ ~CycleStep => saved' = "no"]_vars

C5_Witness == last = "cycle" /\ saved = "ok" /\ vals.iaqAccuracy = 3

\* C6 as claimed: two consecutive calls of saveState are at least
\* STATE_SAVE_INTERVAL_MS apart.
C6_SavesOneIntervalApart ==
  [][saved' # "no" =>
        \A t \in saveCalledAt : now' - t >= STATE_SAVE_INTERVAL_MS]_vars

\* C7: a cycle that calls saveState sets lastStateSave to its time whatever
\* saveState achieved, and the next call of saveState comes no earlier than
\* one save interval after it.
C7_StampedWhateverTheOutcome ==
  [][saved' # "no" =>
        /\ lastStateSave' = now'
        /\ \A t \in saveCalledAt : now' - t >= SaveLiteralMs]_vars

\* a save that failed has advanced lastStateSave
C7_Witness ==
  /\ last = "cycle"
  /\ saved \in {"getfail", "putfail"}
  /\ lastStateSave = now
  /\ ~prefsHasState

\* C8: the info line of a cycle shows the fallback index when that cycle's
\* iaqAccuracy is below 2 and the vendor index otherwise, whatever earlier
\* cycles showed.
C8_SelectionByAccuracy ==
  last = "cycle" =>
    display.source = (IF vals.iaqAccuracy < 2 THEN "Fallback" ELSE "Vendor")

\* an earlier cycle had accuracy 3 (it saved) and the current one selects
\* the fallback index
C8_Witness ==
  /\ last = "cycle"
  /\ saveCalledAt # {}
  /\ display.source = "Fallback"

\* C9: an iteration in which envSensor.run() returns false leaves the
\* pipeline state, lastUpdate, the last cycle's values and the info line as
\* they are, calls no saveState and returns to the top of loop().
C9_NoDataKeepsState ==
  [][(pc = "run" /\ last' = "nodata") =>
        /\ UNCHANGED <<pipeline, lastUpdate, vals, display>>
        /\ saved' = "no"
        /\ pc' = "btnA"]_vars

C9_Witness ==
  /\ last = "nodata"
  /\ baselineEstablished
  /\ display.source # "none"

\* C10: a manual refresh (BtnA) sets lastUpdate to 0 and leaves
\* baselineEstablished, the baseline, the window minimum, lastWindowUpdate
\* and lastStateSave as they are.
C10_RefreshOnlyLastUpdate ==
  [][(pc = "btnA" /\ last' = "BtnA") =>
        /\ lastUpdate' = 0
        /\ UNCHANGED <<pipeline, vals, display, now>>]_vars

C10_Witness ==
  /\ last = "BtnA"
  /\ baselineEstablished
  /\ lastUpdate = 0
  /\ lastWindowUpdate > 0

\* the established baseline is positive
ValidBaseline == baselineEstablished /\ FLt(0, gasBaseline)

\* C11: for an established positive baseline and any current gas resistance
\* the index of the cycle is not negative.
C11_IndexNeverNegative ==
  (last = "cycle" /\ ValidBaseline) => vals.simpleVocIndex >= 0

\* a reading above the baseline, whose percentage is negative
C11_Witness ==
  /\ last = "cycle"
  /\ ValidBaseline
  /\ gasBaseline = 75
  /\ vals.gas_kOhm = 100
  /\ vals.simpleVocIndex = 0

\* C12: the index of a cycle is NaN exactly when the baseline is not
\* established or not positive; a NaN index is labelled Building and a
\* numeric index, zero included, never is.
C12_UnavailableIffNoBaseline ==
  last = "cycle" =>
    /\ IsNan(vals.simpleVocIndex) <=> ~ValidBaseline
    /\ (classifySimpleVoc(vals.simpleVocIndex) = "Building")
         <=> IsNan(vals.simpleVocIndex)
    /\ display.source = "Fallback" =>
         ((display.label = "Building") <=> ~ValidBaseline)
    /\ vals.simpleVocIndex = 0 =>
         classifySimpleVoc(vals.simpleVocIndex) = "Excellent"

\* an established baseline of 0 with a positive reading
C12_Witness ==
  /\ last = "cycle"
  /\ baselineEstablished
  /\ gasBaseline = 0
  /\ vals.gas_kOhm = 100
  /\ display.source = "Fallback"
  /\ display.label = "Building"

\* C13: with a positive baseline the label of the cycle is Excellent below
\* 2 percent of drop, Normal below 10, Elevated below 25, Poor below 50 and
\* Severe from 50 on, so that exactly 2, 10, 25 and 50 take the higher band;
\* baseline 100 and current 75 give index 25, labelled Poor.
C13_BandsExclusive ==
  (last = "cycle" /\ ValidBaseline) =>
    LET drop  == (gasBaseline - vals.gas_kOhm) * 100
        label == classifySimpleVoc(vals.simpleVocIndex)
    IN  /\ label = (IF drop < 2 * gasBaseline THEN "Excellent"
                    ELSE IF drop < 10 * gasBaseline THEN "Normal"
                    ELSE IF drop < 25 * gasBaseline THEN "Elevated"
                    ELSE IF drop < 50 * gasBaseline THEN "Poor"
                    ELSE "Severe")
        /\ display.source = "Fallback" => display.label = label
        /\ (gasBaseline = 100 /\ vals.gas_kOhm = 75) =>
             (vals.simpleVocIndex = 25 /\ label = "Poor")

C13_Witness ==
  /\ last = "cycle"
  /\ gasBaseline = 100
  /\ vals.gas_kOhm = 75
  /\ vals.simpleVocIndex = 25
  /\ display.label = "Poor"

\* C14: with a positive baseline a current gas resistance at or above the
\* baseline gives index 0, labelled Excellent.
C14_ClampedToZero ==
  (last = "cycle" /\ ValidBaseline /\ vals.gas_kOhm >= gasBaseline) =>
    /\ vals.simpleVocIndex = 0
    /\ classifySimpleVoc(vals.simpleVocIndex) = "Excellent"
    /\ display.source = "Fallback" => display.label = "Excellent"

C14_Witness ==
  /\ last = "cycle"
  /\ gasBaseline = 100
  /\ vals.gas_kOhm = 120
  /\ vals.simpleVocIndex = 0
  /\ display.label = "Excellent"

\* C15: a raw pressure above 5000 is divided by 100 and one of 5000 or less
\* is kept; 101325 and 1013.25 both give 1013.25 hPa; the gas resistance is
\* the raw one divided by 1000.  (Pressures in hundredths.)
C15_UnitsNormalized ==
  last = "cycle" =>
    /\ data.pressure > 500000 => vals.pressure_hPa * 100 = data.pressure
    /\ data.pressure <= 500000 => vals.pressure_hPa = data.pressure
    /\ data.pressure \in {10132500, 101325} => vals.pressure_hPa = 101325
    /\ vals.gas_kOhm * 1000 = data.gas

\* a raw pressure of exactly 5000 is kept
C15_Witness ==
  /\ last = "cycle"
  /\ data.pressure = 500000
  /\ vals.pressure_hPa = 500000
  /\ data.gas = 75000

\* C16 as claimed: a cycle that leaves the baseline Established and comes
\* when WINDOW_UPDATE_INTERVAL_MS has elapsed since lastWindowUpdate, exactly
\* that interval included, resets the window minimum to its reading.
C16_ResetWhenIntervalElapsed ==
  [][(CycleStep /\ baselineEstablished'
        /\ now' - lastWindowUpdate >= WINDOW_UPDATE_INTERVAL_MS) =>
       (gasMinWindow' = vals'.gas_kOhm /\ lastWindowUpdate' = now')]_vars

\* C16 as amended: a cycle resets the window exactly when it leaves the
\* baseline Established and more than WINDOW_UPDATE_INTERVAL_MS has elapsed
\* since lastWindowUpdate; it then ends with the window minimum equal to its
\* own reading and lastWindowUpdate equal to its time; any other cycle
\* leaves lastWindowUpdate as it is.
C16_ResetAfterInterval ==
  [][CycleStep =>
       IF baselineEstablished'
            /\ now' - lastWindowUpdate > WINDOW_UPDATE_INTERVAL_MS
         THEN gasMinWindow' = vals'.gas_kOhm /\ lastWindowUpdate' = now'
         ELSE lastWindowUpdate' = lastWindowUpdate]_vars

\* the second window opens with a reading above the one that opened the
\* first: the baseline was captured at 75, two intervals ago
C16_Witness ==
  /\ last = "cycle"
  /\ now = BASELINE_DELAY_MS + 3 * WINDOW_UPDATE_INTERVAL_MS
  /\ lastWindowUpdate = now
  /\ gasBaseline = 75
  /\ vals.gas_kOhm = 100
  /\ gasMinWindow = 100

\* C17: a cycle of an Established baseline that does not reset the window
\* never raises the window minimum: it leaves it, or lowers it to its own,
\* strictly smaller reading; no other step changes it.
C17_WindowMinNonIncreasing ==
  [][/\ (CycleStep /\ baselineEstablished
           /\ lastWindowUpdate' = lastWindowUpdate) =>
          \/ gasMinWindow' = gasMinWindow
          \/ (gasMinWindow' = vals'.gas_kOhm
                /\ FLt(gasMinWindow', gasMinWindow))
     /\ ~CycleStep => gasMinWindow' = gasMinWindow]_vars

\* one interval after the window opened with the baseline reading, without
\* a reset in between, the minimum is a smaller reading
C17_Witness ==
  /\ last = "cycle"
  /\ now = BASELINE_DELAY_MS + 2 * WINDOW_UPDATE_INTERVAL_MS
  /\ lastWindowUpdate < now
  /\ FLt(gasMinWindow, gasBaseline)
  /\ gasMinWindow = vals.gas_kOhm

\* C18: the cycle in which the baseline becomes Established ends with the
\* baseline and the window minimum both equal to its reading.
C18_EstablishedWithReading ==
  [][(~baselineEstablished /\ baselineEstablished') =>
       /\ gasBaseline' = vals'.gas_kOhm
       /\ gasMinWindow' = vals'.gas_kOhm
       /\ vals'.gasBaseline_kOhm = vals'.gas_kOhm
       /\ vals'.gasMinWindow_kOhm = vals'.gas_kOhm]_vars

C18_Witness ==
  /\ last = "cycle"
  /\ now = BASELINE_DELAY_MS + WINDOW_UPDATE_INTERVAL_MS
  /\ baselineEstablished
  /\ gasBaseline = 100
  /\ gasMinWindow = 100
  /\ vals.gas_kOhm = 100
  /\ vals.simpleVocIndex = 0

\* C19: after a cycle with an established positive baseline the window
\* minimum is the least reading of the cycles since and including the latest
\* one that reset the window, and so never above the cycle's reading.
C19_WindowMinIsEpochMin ==
  (last = "cycle" /\ ValidBaseline) =>
    /\ gasMinWindow = epochMin
    /\ FLe(gasMinWindow, vals.gas_kOhm)
    /\ vals.gasMinWindow_kOhm = gasMinWindow

\* the minimum is a reading of an earlier cycle of the window
C19_Witness ==
  /\ last = "cycle"
  /\ ValidBaseline
  /\ lastWindowUpdate < now
  /\ FLt(gasMinWindow, vals.gas_kOhm)
  /\ gasMinWindow = epochMin

\* C20: a cycle after the warm-up delay establishes the baseline also with
\* a reading that is not positive; such a baseline is never captured again,
\* and every cycle that ends with it has a NaN index, labelled Building.
C20_InvalidBaselineStays ==
  [][/\ (CycleStep /\ ~baselineEstablished /\ now' > BASELINE_DELAY_MS
           /\ FLe(vals'.gas_kOhm, 0)) =>
          (baselineEstablished' /\ gasBaseline' = vals'.gas_kOhm)
     /\ (baselineEstablished /\ FLe(gasBaseline, 0)) =>
          (baselineEstablished' /\ gasBaseline' = gasBaseline)
     /\ (CycleStep /\ baselineEstablished' /\ FLe(gasBaseline', 0)) =>
          /\ IsNan(vals'.simpleVocIndex)
          /\ classifySimpleVoc(vals'.simpleVocIndex) = "Building"
          /\ display'.source = "Fallback" => display'.label = "Building"]_vars

\* a later cycle with a positive reading is still Building
C20_Witness ==
  /\ last = "cycle"
  /\ baselineEstablished
  /\ gasBaseline = 0
  /\ now > lastWindowUpdate
  /\ vals.gas_kOhm = 75
  /\ IsNan(vals.simpleVocIndex)
  /\ display.label = "Building"

\* C21: a sampling cycle runs only in an iteration in which the sensor
\* reported new data and at least UPDATE_INTERVAL_MS have passed since
\* lastUpdate; so it comes at least UPDATE_INTERVAL_MS after the cycle before
\* it, unless BtnA or a successful initBsec2 zeroed lastUpdate in between.
C21_CycleOnlyWhenDue ==
  [][CycleStep =>
       /\ got'
       /\ now' - lastUpdate >= UPDATE_INTERVAL_MS
       /\ ~refreshed =>
            \A t \in cycleAt : now' - t >= UPDATE_INTERVAL_MS]_vars

\* the sensor reports new data half an interval after a cycle, nothing
\* zeroed lastUpdate, and no cycle runs
C21_Witness ==
  /\ last = "notdue"
  /\ got
  /\ ~refreshed
  /\ cycleAt = {UPDATE_INTERVAL_MS}
  /\ lastUpdate = UPDATE_INTERVAL_MS
  /\ now = UPDATE_INTERVAL_MS + UPDATE_INTERVAL_MS \div 2

\* C22: saveState is not called before the save interval of the condition
\* (5 minutes) has passed since boot, also when a cycle before that has
\* iaqAccuracy 3; until then lastStateSave stays 0.
C22_NoSaveBeforeFirstInterval ==
  /\ saved # "no" => now >= SaveLiteralMs
  /\ \A t \in saveCalledAt : t >= SaveLiteralMs
  /\ now < SaveLiteralMs => lastStateSave = 0

\* a cycle of full accuracy half a save interval after boot, a stored state
\* having been there to load, does not save
C22_Witness ==
  /\ last = "cycle"
  /\ cycleAt = {now}
  /\ now = SaveLiteralMs \div 2
  /\ vals.iaqAccuracy = MaxAccuracy
  /\ prefsHasState
  /\ saved = "no"
  /\ saveCalledAt = {}

=============================================================================
